---------------------------- MODULE Spec2Model ----------------------------
(***************************************************************************)
(* Byte-pair encoding (src/bpe.py): pair statistics, vocabulary merging,   *)
(* the learning loop and the recursive greedy tokenizer.                   *)
(*                                                                         *)
(* A Python str is a sequence of one-character strings; a dict is a        *)
(* sequence of [key, val] records in insertion order with unique keys.     *)
(* A call that raises gives a result with err = TRUE.  The three           *)
(* control characters U+0000, U+0007 and U+0008 are written "NUL", "BEL"   *)
(* and "BS".                                                               *)
(***************************************************************************)
EXTENDS Integers, Sequences, FiniteSets, TLC

VARIABLES v_in, pair, v_out, mpc,
          vocab, merges, num_merges, vocab0, tpc,
          string, sorted_tokens, string_tokens, kpc

vars == <<v_in, pair, v_out, mpc,
          vocab, merges, num_merges, vocab0, tpc,
          string, sorted_tokens, string_tokens, kpc>>

mergeVars == <<v_in, pair, v_out, mpc>>
trainVars == <<vocab, merges, num_merges, vocab0, tpc>>
tokVars == <<string, sorted_tokens, string_tokens, kpc>>

(***************************************************************************)
(* Bounds                                                                  *)
(***************************************************************************)
\* most words of a corpus file
MaxWords == 2
\* longest word of a corpus file
MaxWordLen == 3
\* largest number of merges requested from the learning loop
MaxMerges == 5
\* longest input string of the tokenizer
MaxStrLen == 3
\* longest token of the tokenizer's list
MaxTokLen == 2
\* longest token list
MaxTokens == 2

(***************************************************************************)
(* Strings                                                                 *)
(***************************************************************************)
\* str.isspace / \s, over the characters of the model
IsSpace(c) == c \in {" ", "\t", "\n", "\r"}

\* s[i:j] with 0-based Python bounds already clipped to 0..len
Slice(s, i, j) == IF j <= i THEN <<>> ELSE SubSeq(s, i + 1, j)

RECURSIVE Join(_, _)
\* sep.join(parts)
Join(sep, parts) ==
  IF parts = <<>> THEN <<>>
  ELSE IF Len(parts) = 1 THEN parts[1]
  ELSE parts[1] \o sep \o Join(sep, Tail(parts))

RECURSIVE SplitFrom(_, _, _, _)
SplitFrom(s, i, cur, acc) ==
  IF i > Len(s)
  THEN IF cur = <<>> THEN acc ELSE Append(acc, cur)
  ELSE IF IsSpace(s[i])
       THEN SplitFrom(s, i + 1, <<>>, IF cur = <<>> THEN acc ELSE Append(acc, cur))
       ELSE SplitFrom(s, i + 1, Append(cur, s[i]), acc)

\* word.split(): the maximal runs of non-whitespace characters
split(s) == SplitFrom(s, 1, <<>>, <<>>)

RECURSIVE replace_dot(_)
\* token.replace('.', '[.]')
replace_dot(s) ==
  IF s = <<>> THEN <<>>
  ELSE (IF s[1] = "." THEN <<"[", ".", "]">> ELSE <<s[1]>>) \o replace_dot(Tail(s))

(***************************************************************************)
(* Regular expressions: re.escape writes a pattern string, the compiler    *)
(* reads a pattern string into one-character atoms.                        *)
(***************************************************************************)
\* the characters re.escape puts a backslash before (those of the model)
SpecialChars == {" ", "\t", "\n", "\r", ".", "[", "]", "\\"}

RECURSIVE re_escape(_)
re_escape(s) ==
  IF s = <<>> THEN <<>>
  ELSE (IF s[1] \in SpecialChars THEN <<"\\", s[1]>> ELSE <<s[1]>>) \o re_escape(Tail(s))

RECURSIVE ClassEnd(_, _)
\* index of the "]" closing the class opened before index i, 0 if none
ClassEnd(p, i) ==
  IF i > Len(p) THEN 0
  ELSE IF p[i] = "]" THEN i
  ELSE ClassEnd(p, i + 1)

RECURSIVE ParseFrom(_, _)
\* atoms of pattern p from index i: a literal, the wildcard, or a class
ParseFrom(p, i) ==
  IF i > Len(p) THEN <<>>
  ELSE IF p[i] = "\\" /\ i < Len(p)
       THEN <<[kind |-> "lit", chars |-> {p[i + 1]}]>> \o ParseFrom(p, i + 2)
  ELSE IF p[i] = "."
       THEN <<[kind |-> "any", chars |-> {}]>> \o ParseFrom(p, i + 1)
  ELSE IF p[i] = "[" /\ ClassEnd(p, i + 2) # 0
       THEN <<[kind |-> "set",
               chars |-> {p[k] : k \in (i + 1)..(ClassEnd(p, i + 2) - 1)}]>>
            \o ParseFrom(p, ClassEnd(p, i + 2) + 1)
  ELSE <<[kind |-> "lit", chars |-> {p[i]}]>> \o ParseFrom(p, i + 1)

\* re.compile(lb + body + la): body's atoms and the two lookarounds
re_compile(lookbehind, body, lookahead) ==
  [atoms |-> ParseFrom(body, 1), lb |-> lookbehind, la |-> lookahead]

AtomMatches(atom, c) ==
  IF atom.kind = "any" THEN c # "\n" ELSE c \in atom.chars

\* does the compiled pattern match s at 0-based position pos
MatchesAt(p, s, pos) ==
  /\ pos + Len(p.atoms) <= Len(s)
  /\ \A k \in 1..Len(p.atoms) : AtomMatches(p.atoms[k], s[pos + k])
  /\ p.lb => (pos = 0 \/ IsSpace(s[pos]))
  /\ p.la => (pos + Len(p.atoms) = Len(s) \/ IsSpace(s[pos + Len(p.atoms) + 1]))

RECURSIVE finditer(_, _, _)
\* start positions (0-based) of the non-overlapping matches from pos on
finditer(p, s, pos) ==
  IF pos > Len(s) THEN <<>>
  ELSE IF MatchesAt(p, s, pos)
       THEN <<pos>> \o finditer(p, s, IF Len(p.atoms) = 0 THEN pos + 1
                                                         ELSE pos + Len(p.atoms))
       ELSE finditer(p, s, pos + 1)

\* the result of a call: a value, or an exception raised
Returned(x) == [err |-> FALSE, val |-> x]
Raised == [err |-> TRUE, val |-> <<>>]

\* the ASCII letters, octal digits and escapes of the characters of the model
AsciiLetters == {"a", "b", "e", "g", "l", "n", "o", "r", "s", "t", "u", "w"}
OctDigits == {"0"}
EscapeChars == {"a", "b", "n", "r", "t", "\\"}
Escape(c) ==
  CASE c = "a" -> "BEL" [] c = "b" -> "BS" [] c = "n" -> "\n"
    [] c = "r" -> "\r" [] c = "t" -> "\t" [] c = "\\" -> "\\"

RECURSIVE NameEnd(_, _)
\* index of the ">" closing the group name that starts at index i, 0 if none
NameEnd(t, i) ==
  IF i > Len(t) THEN 0
  ELSE IF t[i] = ">" THEN i
  ELSE NameEnd(t, i + 1)

\* a literal piece, or a reference to group 0, put before the parsed rest
LitThen(chars, rest) ==
  IF rest.err THEN Raised
  ELSE Returned(<<[grp |-> FALSE, chars |-> chars]>> \o rest.val)
GroupThen(rest) ==
  IF rest.err THEN Raised
  ELSE Returned(<<[grp |-> TRUE, chars |-> <<>>]>> \o rest.val)

RECURSIVE TemplateFrom(_, _)
\* the replacement template t read from index i, for a pattern without
\* groups: \g<0> refers to the whole match, \0 starts an octal escape,
\* \n \r \t \a \b \\ are escapes, any other backslash-letter, any other
\* group reference and a backslash at the end raise (re.error, IndexError
\* for an unknown group name), a backslash before any other character
\* stays with that character
TemplateFrom(t, i) ==
  IF i > Len(t) THEN Returned(<<>>)
  ELSE IF t[i] # "\\" THEN LitThen(<<t[i]>>, TemplateFrom(t, i + 1))
  ELSE IF i = Len(t) THEN Raised
  ELSE IF t[i + 1] = "g"
       THEN IF i + 2 > Len(t) \/ t[i + 2] # "<" THEN Raised
            ELSE IF NameEnd(t, i + 3) \in {0, i + 3} THEN Raised
            ELSE IF \A k \in (i + 3)..(NameEnd(t, i + 3) - 1) : t[k] = "0"
                 THEN GroupThen(TemplateFrom(t, NameEnd(t, i + 3) + 1))
                 ELSE Raised
  ELSE IF t[i + 1] = "0"
       THEN IF i + 2 <= Len(t) /\ t[i + 2] \in OctDigits
            THEN IF i + 3 <= Len(t) /\ t[i + 3] \in OctDigits
                 THEN LitThen(<<"NUL">>, TemplateFrom(t, i + 4))
                 ELSE LitThen(<<"NUL">>, TemplateFrom(t, i + 3))
            ELSE LitThen(<<"NUL">>, TemplateFrom(t, i + 2))
  ELSE IF t[i + 1] \in EscapeChars
       THEN LitThen(<<Escape(t[i + 1])>>, TemplateFrom(t, i + 2))
  ELSE IF t[i + 1] \in AsciiLetters THEN Raised
  ELSE LitThen(<<"\\", t[i + 1]>>, TemplateFrom(t, i + 2))

\* the parsed template of repl
parse_template(repl) == TemplateFrom(repl, 1)

RECURSIVE expand_template(_, _)
\* the replacement of one match: the template's pieces, the matched text m
\* where group 0 is referred to
expand_template(items, m) ==
  IF items = <<>> THEN <<>>
  ELSE (IF items[1].grp THEN m ELSE items[1].chars)
       \o expand_template(Tail(items), m)

RECURSIVE SubFrom(_, _, _, _, _)
SubFrom(p, items, s, starts, from) ==
  IF starts = <<>> THEN Slice(s, from, Len(s))
  ELSE Slice(s, from, starts[1])
       \o expand_template(items, Slice(s, starts[1], starts[1] + Len(p.atoms)))
       \o SubFrom(p, items, s, Tail(starts), starts[1] + Len(p.atoms))

\* p.sub(repl, s): the template is parsed before the matches are replaced
re_sub(p, repl, s) ==
  LET template == parse_template(repl)
  IN  IF template.err THEN Raised
      ELSE Returned(SubFrom(p, template.val, s, finditer(p, s, 0), 0))

(***************************************************************************)
(* Dictionaries                                                            *)
(***************************************************************************)
Keys(d) == {d[i].key : i \in 1..Len(d)}

IndexOf(d, k) == CHOOSE i \in 1..Len(d) : d[i].key = k

\* d[k], and 0 for a missing key of a defaultdict(int)
Get(d, k) == IF k \in Keys(d) THEN d[IndexOf(d, k)].val ELSE 0

\* d[k] = v
Put(d, k, v) ==
  IF k \in Keys(d) THEN [d EXCEPT ![IndexOf(d, k)].val = v]
  ELSE Append(d, [key |-> k, val |-> v])

\* d[k] += v on a defaultdict(int)
Add(d, k, v) == Put(d, k, Get(d, k) + v)

(***************************************************************************)
(* get_vocab, get_stats, merge_vocab, get_tokens                           *)
(***************************************************************************)
stop_token == <<"<", "/", "w", ">">>

\* ' '.join(list(word)) + ' </w>'
spaced_word(word) ==
  Join(<<" ">>, [i \in 1..Len(word) |-> <<word[i]>>]) \o <<" ">> \o stop_token

RECURSIVE VocabOfWords(_, _)
\* the inner loop of get_vocab over the words of one line
VocabOfWords(vocab_, words) ==
  IF words = <<>> THEN vocab_
  ELSE VocabOfWords(Add(vocab_, spaced_word(words[1]), 1), Tail(words))

RECURSIVE VocabFrom(_, _, _)
VocabFrom(vocab_, lines, n) ==
  IF n > Len(lines) THEN vocab_
  ELSE VocabFrom(VocabOfWords(vocab_, split(lines[n])), lines, n + 1)

\* get_vocab of a file given as its lines
get_vocab(lines) == VocabFrom(<<>>, lines, 1)

RECURSIVE StatsOfWord_unweighted(_, _, _, _)
\* each occurrence counted once instead of freq times
StatsOfWord_unweighted(pairs, symbols, freq, i) ==
  IF i >= Len(symbols) - 1 THEN pairs
  ELSE StatsOfWord_unweighted(Add(pairs, <<symbols[i + 1], symbols[i + 2]>>, 1),
                              symbols, freq, i + 1)

RECURSIVE StatsOfWord(_, _, _, _)
\* the inner loop of get_stats, i is the 0-based index
StatsOfWord(pairs, symbols, freq, i) ==
  IF i >= Len(symbols) - 1 THEN pairs
  ELSE StatsOfWord(Add(pairs, <<symbols[i + 1], symbols[i + 2]>>, freq),
                   symbols, freq, i + 1)

RECURSIVE StatsFrom(_, _, _)
StatsFrom(pairs, v, n) ==
  IF n > Len(v) THEN pairs
  ELSE StatsFrom(StatsOfWord(pairs, split(v[n].key), v[n].val, 0), v, n + 1)

get_stats(v) == StatsFrom(<<>>, v, 1)

\* the pattern of merge_vocab: (?<!\S) + re.escape(' '.join(pair)) + (?!\S)
bigram_pattern(pr) == re_compile(TRUE, re_escape(Join(<<" ">>, pr)), TRUE)

\* w_out = p.sub(''.join(pair), word)
merged_word(pr, word) == re_sub(bigram_pattern(pr), Join(<<>>, pr), word)

RECURSIVE MergeFrom(_, _, _, _)
\* the loop of merge_vocab from word n on; an exception leaves the loop
MergeFrom(out, pr, v, n) ==
  IF n > Len(v) THEN Returned(out)
  ELSE LET w_out == merged_word(pr, v[n].key)
       IN  IF w_out.err THEN Raised
           ELSE MergeFrom(Put(out, w_out.val, v[n].val), pr, v, n + 1)

merge_vocab(pr, v) == MergeFrom(<<>>, pr, v, 1)

RECURSIVE TokensOfWord(_, _, _)
TokensOfWord(tokens, word_tokens, freq) ==
  IF word_tokens = <<>> THEN tokens
  ELSE TokensOfWord(Add(tokens, word_tokens[1], freq), Tail(word_tokens), freq)

RECURSIVE TokensFrom(_, _, _)
TokensFrom(tokens, v, n) ==
  IF n > Len(v) THEN tokens
  ELSE TokensFrom(TokensOfWord(tokens, split(v[n].key), v[n].val), v, n + 1)

get_tokens(v) == TokensFrom(<<>>, v, 1)

(***************************************************************************)
(* tokenize_word                                                           *)
(***************************************************************************)
unknown_token == <<"<", "/", "u", ">">>

RECURSIVE tokenize_word(_, _, _)
RECURSIVE TokenizeLoop(_, _, _, _)
RECURSIVE TokenizeGaps(_, _, _, _, _, _)

\* the loop over substring_end_positions and the remaining substring
TokenizeGaps(str, token, rest, unk, ends, start) ==
  IF ends = <<>>
  THEN tokenize_word(Slice(str, start, Len(str)), rest, unk)
  ELSE tokenize_word(Slice(str, start, ends[1]), rest, unk)
       \o <<token>>
       \o TokenizeGaps(str, token, rest, unk, Tail(ends), ends[1] + Len(token))

\* the for loop over sorted_tokens from 1-based index i
TokenizeLoop(str, toks, unk, i) ==
  IF i > Len(toks) THEN <<>>
  ELSE LET token == toks[i]
           token_reg == re_compile(FALSE, re_escape(replace_dot(token)), FALSE)
           ends == finditer(token_reg, str, 0)
       IN IF ends = <<>>
          THEN TokenizeLoop(str, toks, unk, i + 1)
          ELSE TokenizeGaps(str, token, SubSeq(toks, i + 1, Len(toks)), unk, ends, 0)

tokenize_word(str, toks, unk) ==
  IF str = <<>> THEN <<>>
  ELSE IF toks = <<>> THEN <<unk>>
  ELSE TokenizeLoop(str, toks, unk, 1)

(***************************************************************************)
(* measure_token_length                                                    *)
(***************************************************************************)
\* token[-4:] and token[:-4]
measure_token_length(token) ==
  IF Slice(token, IF Len(token) > 4 THEN Len(token) - 4 ELSE 0, Len(token)) = stop_token
  THEN Len(Slice(token, 0, Len(token) - 4)) + 1
  ELSE Len(token)

(***************************************************************************)
(* The learning loop: per iteration get_stats, stop on empty statistics,   *)
(* select the most frequent pair (ties: the lexicographically least pair), *)
(* merge_vocab, record the rule.                                           *)
(***************************************************************************)
\* code points of the characters of the model
Ord(c) ==
  CASE c = "NUL" -> 0 [] c = "BEL" -> 7 [] c = "BS" -> 8 [] c = "\t" -> 9
    [] c = "\n" -> 10 [] c = "\r" -> 13
    [] c = " " -> 32 [] c = "." -> 46 [] c = "/" -> 47 [] c = "0" -> 48
    [] c = "<" -> 60 [] c = ">" -> 62 [] c = "[" -> 91 [] c = "\\" -> 92
    [] c = "]" -> 93 [] c = "a" -> 97 [] c = "b" -> 98 [] c = "e" -> 101
    [] c = "g" -> 103 [] c = "l" -> 108 [] c = "n" -> 110 [] c = "o" -> 111
    [] c = "r" -> 114 [] c = "s" -> 115 [] c = "t" -> 116 [] c = "u" -> 117
    [] c = "w" -> 119

RECURSIVE StrLess(_, _)
\* s < t on strings
StrLess(s, t) ==
  IF t = <<>> THEN FALSE
  ELSE IF s = <<>> THEN TRUE
  ELSE IF s[1] # t[1] THEN Ord(s[1]) < Ord(t[1])
  ELSE StrLess(Tail(s), Tail(t))

\* p < q on pairs of strings
PairLess(p, q) == StrLess(p[1], q[1]) \/ (p[1] = q[1] /\ StrLess(p[2], q[2]))

\* the pair of maximum aggregate frequency, ties to the least pair
select_pair(stats) ==
  CHOOSE i \in 1..Len(stats) :
    \A j \in 1..Len(stats) :
      \/ j = i
      \/ stats[j].val < stats[i].val
      \/ (stats[j].val = stats[i].val /\ PairLess(stats[i].key, stats[j].key))

(***************************************************************************)
(* Inputs                                                                  *)
(***************************************************************************)
Space == <<" ">>

SeqsUpTo(S, lo, hi) == UNION {[1..n -> S] : n \in lo..hi}

\* the characters of the words of a corpus file
CorpusChars == {"\\", "n"}

CorpusWords == SeqsUpTo(CorpusChars, 1, MaxWordLen)

\* a file of one line: its words separated by a space, then the line end
FileOf(words) == <<Join(Space, words) \o <<"\n">>>>

\* the corpus files: at most MaxWords words
Files == {FileOf(ws) : ws \in SeqsUpTo(CorpusWords, 0, MaxWords)}

\* "lowest" three times and "lower" twice
LowestFile ==
  FileOf(<< <<"l","o","w","e","s","t">>, <<"l","o","w","e","s","t">>,
            <<"l","o","w","e","s","t">>, <<"l","o","w","e","r">>,
            <<"l","o","w","e","r">> >>)

\* the get_vocab of LowestFile
LowestTable ==
  << [key |-> <<"l"," ","o"," ","w"," ","e"," ","s"," ","t"," ","<","/","w",">">>,
      val |-> 3],
     [key |-> <<"l"," ","o"," ","w"," ","e"," ","r"," ","<","/","w",">">>,
      val |-> 2] >>

\* the words "g<0>" and "\g<0>"
GroupFile == FileOf(<< <<"g","<","0",">">>, <<"\\","g","<","0",">">> >>)

StrChars == {"a", "b", ".", "[", "]"}
TokChars == {"a", "b", "."}

Strings == SeqsUpTo(StrChars, 0, MaxStrLen)
Tokens == SeqsUpTo(TokChars, 1, MaxTokLen)

\* lists of distinct tokens, longest first
TokenLists ==
  {l \in SeqsUpTo(Tokens, 0, MaxTokens) :
     /\ \A i, j \in 1..Len(l) : i # j => l[i] # l[j]
     /\ \A i \in 1..(Len(l) - 1) :
          measure_token_length(l[i]) >= measure_token_length(l[i + 1])}

(***************************************************************************)
(* merge_vocab applied to the table of a corpus file and a pair its        *)
(* statistics report                                                       *)
(***************************************************************************)
InitMerge ==
  /\ v_in \in {get_vocab(f) : f \in Files}
  /\ pair = <<>>
  /\ v_out = <<>>
  /\ mpc = "call"
  /\ vocab = <<>> /\ merges = <<>> /\ num_merges = 0 /\ vocab0 = <<>> /\ tpc = "idle"
  /\ string = <<>> /\ sorted_tokens = <<>> /\ string_tokens = <<>> /\ kpc = "idle"

\* merge_vocab(pair, v_in) returns v_out
MergeVocab ==
  /\ mpc = "call"
  /\ \E pr \in Keys(get_stats(v_in)) :
       LET r == merge_vocab(pr, v_in)
       IN  /\ ~r.err
           /\ pair' = pr
           /\ v_out' = r.val
  /\ mpc' = "return"
  /\ UNCHANGED <<v_in, trainVars, tokVars>>

\* merge_vocab(pair, v_in) raises
MergeVocabRaises ==
  /\ mpc = "call"
  /\ \E pr \in Keys(get_stats(v_in)) :
       /\ merge_vocab(pr, v_in).err
       /\ pair' = pr
  /\ mpc' = "raised"
  /\ UNCHANGED <<v_in, v_out, trainVars, tokVars>>

NextMerge == MergeVocab \/ MergeVocabRaises

SpecMerge == InitMerge /\ [][NextMerge]_vars

(***************************************************************************)
(* The learning loop                                                       *)
(***************************************************************************)
InitTrain ==
  /\ vocab0 = <<>>
  /\ num_merges = 0
  /\ vocab = <<>>
  /\ merges = <<>>
  /\ tpc = "call"
  /\ v_in = <<>> /\ pair = <<>> /\ v_out = <<>> /\ mpc = "idle"
  /\ string = <<>> /\ sorted_tokens = <<>> /\ string_tokens = <<>> /\ kpc = "idle"

\* the call: the table of a corpus file and the number of merges
TrainCall ==
  /\ tpc = "call"
  /\ \E f \in Files \cup {LowestFile, GroupFile}, n \in 0..MaxMerges :
       /\ vocab0' = get_vocab(f)
       /\ vocab' = get_vocab(f)
       /\ num_merges' = n
  /\ merges' = <<>>
  /\ tpc' = "loop"
  /\ UNCHANGED <<mergeVars, tokVars>>

\* the most frequent pair of the current table
best_pair(v) == LET stats == get_stats(v) IN stats[select_pair(stats)].key

\* an iteration that finds a pair and merges it
TrainMerge ==
  /\ tpc = "loop"
  /\ Len(merges) < num_merges
  /\ get_stats(vocab) # <<>>
  /\ LET best == best_pair(vocab)
         r == merge_vocab(best, vocab)
     IN  /\ ~r.err
         /\ vocab' = r.val
         /\ merges' = Append(merges, [pair |-> best, index |-> Len(merges)])
  /\ UNCHANGED <<num_merges, vocab0, tpc, mergeVars, tokVars>>

\* an iteration whose merge_vocab raises: the loop is left
TrainMergeRaises ==
  /\ tpc = "loop"
  /\ Len(merges) < num_merges
  /\ get_stats(vocab) # <<>>
  /\ merge_vocab(best_pair(vocab), vocab).err
  /\ tpc' = "raised"
  /\ UNCHANGED <<vocab, merges, num_merges, vocab0, mergeVars, tokVars>>

\* an iteration that finds no pair: stop early
TrainExhausted ==
  /\ tpc = "loop"
  /\ Len(merges) < num_merges
  /\ get_stats(vocab) = <<>>
  /\ tpc' = "done"
  /\ UNCHANGED <<vocab, merges, num_merges, vocab0, mergeVars, tokVars>>

\* the requested number of merges is reached
TrainReturn ==
  /\ tpc = "loop"
  /\ Len(merges) >= num_merges
  /\ tpc' = "done"
  /\ UNCHANGED <<vocab, merges, num_merges, vocab0, mergeVars, tokVars>>

NextTrain ==
  TrainCall \/ TrainMerge \/ TrainMergeRaises \/ TrainExhausted \/ TrainReturn

SpecTrain == InitTrain /\ [][NextTrain]_vars

(***************************************************************************)
(* tokenize_word applied to a string and a token list                      *)
(***************************************************************************)
InitTok ==
  /\ string \in Strings
  /\ sorted_tokens \in TokenLists
  /\ string_tokens = <<>>
  /\ kpc = "call"
  /\ v_in = <<>> /\ pair = <<>> /\ v_out = <<>> /\ mpc = "idle"
  /\ vocab = <<>> /\ merges = <<>> /\ num_merges = 0 /\ vocab0 = <<>> /\ tpc = "idle"

Tokenize ==
  /\ kpc = "call"
  /\ string_tokens' = tokenize_word(string, sorted_tokens, unknown_token)
  /\ kpc' = "return"
  /\ UNCHANGED <<string, sorted_tokens, mergeVars, trainVars>>

NextTok == Tokenize

SpecTok == InitTok /\ [][NextTok]_vars

(***************************************************************************)
(* Vocabulary of the properties: symbol sequences, independent of the      *)
(* pattern matching above.                                                 *)
(***************************************************************************)
Range(f) == {f[i] : i \in DOMAIN f}

RECURSIVE FuseAdjacent(_, _, _)
\* syms with each left-to-right non-overlapping adjacent (a, b) fused
FuseAdjacent(syms, a, b) ==
  IF Len(syms) < 2 THEN syms
  ELSE IF syms[1] = a /\ syms[2] = b
       THEN <<a \o b>> \o FuseAdjacent(SubSeq(syms, 3, Len(syms)), a, b)
       ELSE <<syms[1]>> \o FuseAdjacent(Tail(syms), a, b)

\* a is immediately followed by b among the whole symbols syms
HasAdjacent(syms, a, b) ==
  \E i \in 1..(Len(syms) - 1) : syms[i] = a /\ syms[i + 1] = b

RECURSIVE SumVals(_)
SumVals(d) == IF d = <<>> THEN 0 ELSE d[1].val + SumVals(Tail(d))

RECURSIVE TotalSymbols(_)
\* number of symbols over all words of a table
TotalSymbols(v) ==
  IF v = <<>> THEN 0 ELSE Len(split(v[1].key)) + TotalSymbols(Tail(v))

\* t occurs in s character for character at 0-based position i
OccursAt(t, s, i) == i + Len(t) <= Len(s) /\ SubSeq(s, i + 1, i + Len(t)) = t

Occurs(t, s) == \E i \in 0..Len(s) : OccursAt(t, s, i)

RECURSIVE CountOccurrences(_, _, _)
\* number of left-to-right non-overlapping occurrences of t in s from i on
CountOccurrences(t, s, i) ==
  IF i + Len(t) > Len(s) \/ t = <<>> THEN 0
  ELSE IF OccursAt(t, s, i) THEN 1 + CountOccurrences(t, s, i + Len(t))
  ELSE CountOccurrences(t, s, i + 1)

CountOf(out, t) == Cardinality({i \in 1..Len(out) : out[i] = t})

RECURSIVE Covers(_, _, _, _)
\* out is a segmentation of s: known tokens equal to the text they cover,
\* the unknown marker for a non-empty stretch
Covers(out, s, toks, unk) ==
  IF out = <<>> THEN s = <<>>
  ELSE \/ /\ out[1] \in Range(toks)
          /\ OccursAt(out[1], s, 0)
          /\ Covers(Tail(out), SubSeq(s, Len(out[1]) + 1, Len(s)), toks, unk)
       \/ /\ out[1] = unk
          /\ \E k \in 1..Len(s) : Covers(Tail(out), SubSeq(s, k + 1, Len(s)), toks, unk)

(***************************************************************************)
(* Properties                                                              *)
(***************************************************************************)

\* C1: a non-empty string in which no token of the list occurs is
\* tokenized to exactly one unknown marker.
C1_UnmatchedBecomesUnknown ==
  (kpc = "return" /\ string # <<>>
     /\ \A i \in 1..Len(sorted_tokens) : ~Occurs(sorted_tokens[i], string))
  => string_tokens = <<unknown_token>>

\* C2: merge_vocab fuses the pair only where its two symbols are consecutive
\* whole symbols: the keys written are exactly the input words with each
\* left-to-right non-overlapping adjacent (a, b) fused, every other symbol
\* unchanged.
C2_MergeRespectsSymbols ==
  mpc = "return" =>
    /\ \A n \in 1..Len(v_in) :
         Join(Space, FuseAdjacent(split(v_in[n].key), pair[1], pair[2])) \in Keys(v_out)
    /\ \A m \in 1..Len(v_out) :
         \E n \in 1..Len(v_in) :
           split(v_out[m].key) = FuseAdjacent(split(v_in[n].key), pair[1], pair[2])

\* C3: after merging a pair the statistics report, the aggregate frequency
\* of the fused symbol is at least the pair's frequency before the merge.
C3_FusedFrequencyAtLeastPair ==
  (mpc = "return" /\ pair \in Keys(get_stats(v_in)))
  => Get(get_tokens(v_out), pair[1] \o pair[2]) >= Get(get_stats(v_in), pair)

\* C4: after merging a pair the statistics report, the statistics of the
\* new table have no entry for the pair and no word has a immediately
\* followed by b.
C4_PairAbsentAfterMerge ==
  (mpc = "return" /\ pair \in Keys(get_stats(v_in)))
  => /\ pair \notin Keys(get_stats(v_out))
     /\ \A m \in 1..Len(v_out) : ~HasAdjacent(split(v_out[m].key), pair[1], pair[2])

\* C5: the output maps the merged form of each input word to that word's
\* frequency, and the frequencies of the output sum to those of the input.
C5_FrequenciesCarriedOver ==
  mpc = "return" =>
    /\ \A n \in 1..Len(v_in) :
         Get(v_out, Join(Space, FuseAdjacent(split(v_in[n].key), pair[1], pair[2])))
           = v_in[n].val
    /\ SumVals(v_out) = SumVals(v_in)

\* C6: every iteration of the loop that merges strictly reduces the total
\* number of symbols of the table.
C6_MergeReducesSymbols ==
  [][merges' # merges => TotalSymbols(vocab') < TotalSymbols(vocab)]_vars

LowestAfterFirstMerge ==
  << [key |-> <<"l","o"," ","w"," ","e"," ","s"," ","t"," ","<","/","w",">">>,
      val |-> 3],
     [key |-> <<"l","o"," ","w"," ","e"," ","r"," ","<","/","w",">">>,
      val |-> 2] >>

\* C7: from {'l o w e s t </w>': 3, 'l o w e r </w>': 2} the first merge is
\* ('l', 'o'), of frequency 5, and gives
\* {'lo w e s t </w>': 3, 'lo w e r </w>': 2}.
C7_LowestFirstMerge ==
  (vocab0 = LowestTable /\ Len(merges) >= 1)
  => /\ merges[1].pair = << <<"l">>, <<"o">> >>
     /\ Get(get_stats(vocab0), merges[1].pair) = 5
     /\ Len(merges) = 1 => vocab = LowestAfterFirstMerge

C7_Witness == vocab0 = LowestTable /\ Len(merges) = 1 /\ vocab # vocab0

\* C8: the loop is never left by an exception, and it returns at most
\* num_merges rules; fewer only when the statistics of the final table are
\* empty, no word having two symbols; for num_merges = 0 no rule and the
\* input table.
C8_TrainTerminates ==
  /\ tpc # "raised"
  /\ tpc = "done" =>
       /\ Len(merges) <= num_merges
       /\ Len(merges) < num_merges =>
            /\ get_stats(vocab) = <<>>
            /\ \A n \in 1..Len(vocab) : Len(split(vocab[n].key)) < 2
       /\ num_merges = 0 => (merges = <<>> /\ vocab = vocab0)

\* C9: a token containing '.' is found exactly where the string holds it
\* character for character.
C9_DotIsLiteral ==
  (kpc = "return" /\ sorted_tokens # <<>> /\ "." \in Range(sorted_tokens[1]))
  => CountOf(string_tokens, sorted_tokens[1])
       = CountOccurrences(sorted_tokens[1], string, 0)

\* C10: with tokens free of '.', the output is a segmentation that covers
\* the string left to right.
C10_LosslessSegmentation ==
  (kpc = "return" /\ \A i \in 1..Len(sorted_tokens) : "." \notin Range(sorted_tokens[i]))
  => Covers(string_tokens, string, sorted_tokens, unknown_token)

====
